---- MODULE Spec2Model ----
(***************************************************************************)
(* A model of the comtrade client library: construction of the Comtrade    *)
(* client (token resolution and validation), its query methods (parameter  *)
(* validation, request execution, response-envelope validation) and the    *)
(* on-disk cache of reference tables.                                      *)
(*                                                                         *)
(* Python values are tagged records so that None, strings and integers can *)
(* be compared with one another.  A Python string is a sequence of         *)
(* one-character strings.                                                  *)
(***************************************************************************)
EXTENDS Integers, Sequences, FiniteSets, TLC

VARIABLES
    environ,    \* os.environ[KEY_ENV_NAME]: a str, or None when the name is not set
    keyfile,    \* content of the file KEY_FILE_NAME: a str, or None when there is no file
    ctor,       \* "none": no Comtrade(...) call yet; "ok": it returned; "raised": it raised
    arg,        \* the token argument of the last Comtrade(...) call
    token,      \* self.token
    sess,       \* TRUE when the attribute self.sess exists
    warns,      \* the warnings emitted by the last Comtrade(...) call, in order
    ctor_exc,   \* the exception type raised by the last Comtrade(...) call, or "none"
    call,       \* the last method call on the client and its outcome
    files,      \* the files of DATA_DIR: file name -> the lines of the file
    origin,     \* file name -> the table returned by the call that wrote the file
    mcall       \* the last call of a function of util.py and its outcome

clientVars == <<environ, keyfile, ctor, arg, token, sess, warns, ctor_exc, call>>
cacheVars == <<files, origin, mcall>>
vars == <<environ, keyfile, ctor, arg, token, sess, warns, ctor_exc, call,
          files, origin, mcall>>

----------------------------------------------------------------------------
(* Python values *)

None == [t |-> "NoneType"]
Str(s) == [t |-> "str", s |-> s]
PyInt(n) == [t |-> "int", v |-> n]
PyBool(b) == [t |-> "bool", v |-> b]

\* the largest number of records in a dataset, a csv entry or a results list
MaxRows == 2

\* util.py: DEFAULT_API_URL
DEFAULT_API_URL == "http://comtrade.un.org/api/"

\* core.py: key_len in Comtrade.__init__
key_len == 152

\* core.py 57: the status code of a successful request
HTTP_OK == 200

Min(a, b) == IF a < b THEN a ELSE b

\* str.strip() with no argument removes the leading and trailing characters c
\* with c.isspace(). A character for which TLA+ has no notation is written as
\* its Python escape and stands for one character
Whitespace ==
    {" ", "\t", "\n", "\r", "\f", "\\x0b", "\\x1c", "\\x1d", "\\x1e", "\\x1f",
     "\\x85", "\\xa0", "\\u1680", "\\u2000", "\\u2001", "\\u2002", "\\u2003",
     "\\u2004", "\\u2005", "\\u2006", "\\u2007", "\\u2008", "\\u2009", "\\u200a",
     "\\u2028", "\\u2029", "\\u202f", "\\u205f", "\\u3000"}

RECURSIVE lstrip(_)
lstrip(s) == IF s # <<>> /\ Head(s) \in Whitespace THEN lstrip(Tail(s)) ELSE s

RECURSIVE rstrip(_)
rstrip(s) ==
    IF s # <<>> /\ s[Len(s)] \in Whitespace
    THEN rstrip(SubSeq(s, 1, Len(s) - 1))
    ELSE s

strip(s) == rstrip(lstrip(s))

\* what universal newlines make of the character i of s: "\r" becomes "\n",
\* and the "\n" that follows a "\r" goes
NewlineAt(s, i) ==
    IF s[i] = "\r" THEN <<"\n">>
    ELSE IF s[i] = "\n" /\ i > 1 /\ s[i - 1] = "\r" THEN <<>>
    ELSE <<s[i]>>

\* the characters lo to hi of s after universal newlines
RECURSIVE NewlinesBetween(_, _, _)
NewlinesBetween(s, lo, hi) ==
    IF lo > hi THEN <<>>
    ELSE IF lo = hi THEN NewlineAt(s, lo)
    ELSE LET mid == (lo + hi) \div 2
         IN  NewlinesBetween(s, lo, mid) \o NewlinesBetween(s, mid + 1, hi)

\* the text f.read() gives for a file opened in text mode: universal newlines
\* turn "\r\n" and a lone "\r" into "\n"
UniversalNewlines(s) == NewlinesBetween(s, 1, Len(s))

\* s[:n] of a Python str, for n >= 0
SlicePrefix(s, n) == SubSeq(s, 1, Min(n, Len(s)))

----------------------------------------------------------------------------
(* The tokens the environment, the token file and the callers may hold.    *)
(* A token of n characters made of the character c; the characters after   *)
(* position key_len differ from those before it.                           *)

TokenOf(n, c) == Str([i \in 1..n |-> IF i <= key_len THEN c ELSE "x"])

TokenLens == {key_len - 1, key_len, key_len + 1}

ArgTokens == {None} \cup {TokenOf(n, "a") : n \in TokenLens}
EnvTokens == {None} \cup {TokenOf(n, "e") : n \in TokenLens}
\* a token of n characters with the characters of brk after the first half of
\* key_len characters
BrokenToken(n, brk) ==
    LET h == key_len \div 2
    IN  Str([i \in 1..h |-> "f"] \o brk \o [i \in 1..(n - h - Len(brk)) |-> "f"])

\* the token file holds the token followed by a newline, or preceded by a blank
\* too, or set between a form feed and a no-break space, or a token with a
\* line break of two characters or a carriage return inside
FileContents ==
    {None} \cup {Str(TokenOf(n, "f").s \o <<"\n">>) : n \in TokenLens}
           \cup {Str(<<" ">> \o TokenOf(key_len, "f").s \o <<"\n">>)}
           \cup {Str(<<"\f">> \o TokenOf(key_len, "f").s \o <<"\\xa0", "\n">>)}
           \cup {Str(BrokenToken(n, <<"\r", "\n">>).s \o <<"\n">>) :
                    n \in {key_len, key_len + 1}}
           \cup {BrokenToken(key_len, <<"\r">>)}

----------------------------------------------------------------------------
(* Comtrade.__init__ *)

\* the no-call value of the variable call
NoResp == [status_code |-> 0]
NoExc == [type |-> "none", response |-> NoResp]
NoCall == [method |-> "none", kwargs |-> <<>>, sent |-> <<>>, resp |-> NoResp,
           exc |-> NoExc, ret |-> None]

\* core.py 30-39: self.token after the resolution, for the argument tok
ResolveToken(tok) ==
    IF tok = None
    THEN IF environ # None THEN environ
         ELSE IF keyfile # None THEN Str(strip(UniversalNewlines(keyfile.s)))
         ELSE None
    ELSE None

\* core.py 26-52: the outcome of Comtrade(token=tok):
\* self.token, whether self.sess was set, the warnings and the exception
ComtradeInit(tok) ==
    LET resolved == ResolveToken(tok)
        out(t, s, w, e) == [token |-> t, sess |-> s, warns |-> w, exc |-> e]
    IN  IF tok = None /\ environ = None /\ keyfile = None
        THEN \* warn and return: lines 51-52 are not reached
             out(None, FALSE, <<"token not detected">>, "none")
        ELSE IF resolved # None /\ Len(resolved.s) > key_len
        THEN \* self.token = token[:key_len], of the argument
             IF tok = None
             THEN out(None, FALSE, <<>>, "TypeError")
             ELSE out(Str(SlicePrefix(tok.s, key_len)), TRUE, <<"token too long">>, "none")
        ELSE IF resolved # None /\ Len(resolved.s) < key_len
        THEN out(None, FALSE, <<>>, "ValueError")
        ELSE out(resolved, TRUE, <<>>, "none")

Construct ==
    \E tok \in ArgTokens :
        LET o == ComtradeInit(tok)
        IN  /\ arg' = tok
            /\ ctor' = IF o.exc = "none" THEN "ok" ELSE "raised"
            /\ token' = o.token
            /\ sess' = o.sess
            /\ warns' = o.warns
            /\ ctor_exc' = o.exc
            /\ call' = NoCall
            /\ UNCHANGED <<environ, keyfile>>
            /\ UNCHANGED cacheVars

----------------------------------------------------------------------------
(* Tables: pandas.DataFrame, DataFrame.to_csv and pandas.read_csv.         *)
(*                                                                         *)
(* A JSON object of a dataset or of a results list is a sequence of        *)
(* <<key, value>> pairs, in the order of the document; keys, column names  *)
(* and the cells of a csv file are Python strings (character sequences).   *)
(* A csv file is the sequence of its lines, each the sequence of its       *)
(* cells: the cells the model writes hold no comma, quote or newline.      *)

NaN == [t |-> "float", v |-> 0, nan |-> TRUE]
PyFloat(n) == [t |-> "float", v |-> n, nan |-> FALSE]
PyList(items) == [t |-> "list", v |-> items]
EmptyDict == [t |-> "dict", v |-> <<>>]

Keys(rec) == [j \in 1..Len(rec) |-> rec[j][1]]
InSeq(x, s) == \E j \in 1..Len(s) : s[j] = x

\* the keys of the records, each once, in the order of their first appearance
RECURSIVE AddKeys(_, _)
AddKeys(cols, ks) ==
    IF ks = <<>> THEN cols
    ELSE AddKeys(IF InSeq(Head(ks), cols) THEN cols ELSE Append(cols, Head(ks)), Tail(ks))

RECURSIVE ColumnsOf(_, _)
ColumnsOf(cols, records) ==
    IF records = <<>> THEN cols
    ELSE ColumnsOf(AddKeys(cols, Keys(Head(records))), Tail(records))

\* rec[key], or NaN for a record without the key
Lookup(rec, key) ==
    IF \E j \in 1..Len(rec) : rec[j][1] = key
    THEN rec[CHOOSE j \in 1..Len(rec) : rec[j][1] = key][2]
    ELSE NaN

RangeIndex(n) == [i \in 1..n |-> PyInt(i - 1)]

\* pd.DataFrame(data) for a list of records or for a DataFrame
DataFrame(data) ==
    IF data.t = "DataFrame" THEN data
    ELSE LET records == data.v
             cols == ColumnsOf(<<>>, records)
         IN  [t |-> "DataFrame",
              columns |-> cols,
              index |-> RangeIndex(Len(records)),
              data |-> [i \in 1..Len(records) |->
                          [j \in 1..Len(cols) |-> Lookup(records[i], cols[j])]]]

NRows(df) == Len(df.index)

DigitChars == <<"0", "1", "2", "3", "4", "5", "6", "7", "8", "9">>
IsDigit(c) == \E d \in 1..10 : DigitChars[d] = c
DigitVal(c) == (CHOOSE d \in 1..10 : DigitChars[d] = c) - 1

\* str(n) for an integer n >= 0
RECURSIVE IntText(_)
IntText(n) ==
    IF n < 10 THEN <<DigitChars[n + 1]>>
    ELSE Append(IntText(n \div 10), DigitChars[(n % 10) + 1])

\* the text to_csv writes for a cell
CellText(v) ==
    IF v.t = "str" THEN v.s
    ELSE IF v.t = "int" THEN IntText(v.v)
    ELSE IF v.t = "float" /\ ~v.nan THEN IntText(v.v) \o <<".", "0">>
    ELSE <<>>

\* df.to_csv(fn): a header line with an empty cell for the index, then one line per row
to_csv(df) ==
    <<(<<(<<>>)>> \o df.columns)>> \o
    [i \in 1..NRows(df) |->
        <<CellText(df.index[i])>> \o [j \in 1..Len(df.columns) |-> CellText(df.data[i][j])]]

IsIntText(s) == s # <<>> /\ \A j \in 1..Len(s) : IsDigit(s[j])

RECURSIVE ParseInt(_)
ParseInt(s) ==
    IF s = <<>> THEN 0
    ELSE 10 * ParseInt(SubSeq(s, 1, Len(s) - 1)) + DigitVal(s[Len(s)])

\* an empty cell is read as a missing value
IsNA(s) == s = <<>>

\* the values read_csv infers for the cells of one column: integers when every
\* cell is an integer literal, floats when the others are missing, else strings
InferColumn(cells) ==
    LET present == {i \in 1..Len(cells) : ~IsNA(cells[i])}
        numeric == \A i \in present : IsIntText(cells[i])
        whole == present = 1..Len(cells)
    IN  [i \in 1..Len(cells) |->
            IF i \notin present THEN NaN
            ELSE IF numeric /\ whole THEN PyInt(ParseInt(cells[i]))
            ELSE IF numeric THEN PyFloat(ParseInt(cells[i]))
            ELSE Str(cells[i])]

\* pd.read_csv(f, index_col=...) of a file whose lines all have the cells of the
\* header: with_index is TRUE for index_col=0, FALSE for no index_col
read_csv(lines, with_index) ==
    IF lines = <<>> THEN [t |-> "EmptyDataError"]
    ELSE LET header == Head(lines)
             rows == Tail(lines)
             n == Len(rows)
             col(j) == InferColumn([i \in 1..n |-> rows[i][j]])
             first == IF with_index THEN 2 ELSE 1
             ncols == Len(header) - first + 1
         IN  [t |-> "DataFrame",
              columns |-> [j \in 1..ncols |-> header[j + first - 1]],
              index |-> IF with_index /\ Len(header) > 0 THEN col(1) ELSE RangeIndex(n),
              data |-> [i \in 1..n |-> [j \in 1..ncols |-> col(j + first - 1)[i]]]]

----------------------------------------------------------------------------
(* Requests and responses *)

\* requests leaves the parameters whose value is None out of the query string
PreparedUrl(req) ==
    [url |-> req.url,
     query |-> [k \in {n \in DOMAIN req.params : req.params[n] # None} |-> req.params[k]]]

\* the request self.sess.get(self.url + method, params=params) sends; the path of
\* get_bulk is its fixed part and the five values formatted into it
Request(path, segs, params) ==
    [url |-> [base |-> DEFAULT_API_URL, path |-> path, segs |-> segs], params |-> params]

\* the response to req when the server answers with a status and a body
Response(req, answer) ==
    [status_code |-> answer.status, body |-> answer.body, url |-> PreparedUrl(req)]

\* QueryError as it would be were the response left out of the exception
QueryErrorNoResponse(r) == [type |-> "QueryError", response |-> NoResp]

QueryError(r) == [type |-> "QueryError", response |-> r]
Raise(type) == [type |-> type, response |-> NoResp]

\* core.py 54-62: _make_request. Without the attribute sess, self.sess raises
MakeRequest(path, segs, params, answer) ==
    IF ~sess
    THEN [sent |-> <<>>, resp |-> NoResp, exc |-> Raise("AttributeError")]
    ELSE LET req == Request(path, segs, params)
             r == Response(req, answer)
         IN  [sent |-> <<req>>,
              resp |-> r,
              exc |-> IF r.status_code # HTTP_OK THEN QueryError(r) ELSE NoExc]

\* _validate_kwargs as it would be were a call refused only when none of its
\* names is allowed
ValidateKwargsNoneAllowed(method, allowed_kwargs, kwargs) ==
    /\ DOMAIN kwargs # {}
    /\ \A k \in DOMAIN kwargs : k \notin allowed_kwargs

\* core.py 64-68: _validate_kwargs raises ValueError for a name not allowed
ValidateKwargs(method, allowed_kwargs, kwargs) ==
    \E k \in DOMAIN kwargs : k \notin allowed_kwargs

\* ComtradeResult as it would be were the url of the request kept without its
\* query string
ComtradeResultBareUrl(validation, dataset, url) ==
    [t |-> "ComtradeResult", validation |-> validation, df |-> DataFrame(dataset),
     url |-> [url |-> url.url, query |-> <<>>]]

\* core.py 18-22
ComtradeResult(validation, dataset, url) ==
    [t |-> "ComtradeResult", validation |-> validation, df |-> DataFrame(dataset),
     url |-> url]

\* bool(v) is False: None, False, a zero, an empty list, str or dict
Falsy(v) ==
    \/ v.t = "NoneType"
    \/ v.t = "bool" /\ ~v.v
    \/ v.t = "int" /\ v.v = 0
    \/ v.t = "float" /\ ~v.nan /\ v.v = 0
    \/ v.t = "list" /\ v.v = <<>>
    \/ v.t = "str" /\ v.s = <<>>
    \/ v.t = "dict" /\ v.v = <<>>

\* core.py 70-84: _validation_dataset_response; r.json() raises for a body
\* that is not JSON
ValidationDatasetResponse(r) ==
    IF r.body.kind # "json" THEN [exc |-> Raise("JSONDecodeError"), ret |-> None]
    ELSE LET js == r.body.js
         IN  IF "validation" \notin DOMAIN js THEN [exc |-> QueryError(r), ret |-> None]
             ELSE IF "dataset" \notin DOMAIN js THEN [exc |-> QueryError(r), ret |-> None]
             ELSE IF Falsy(js["dataset"]) THEN [exc |-> QueryError(r), ret |-> None]
             ELSE [exc |-> NoExc,
                   ret |-> ComtradeResult(js["validation"], js["dataset"], r.url)]

Outcome(method, kwargs, sent, resp, exc, ret) ==
    [method |-> method, kwargs |-> kwargs, sent |-> sent, resp |-> resp,
     exc |-> exc, ret |-> ret]

\* the body shared by get, view and view_bulk: validate, request, unwrap.
\* name is the method name given to _validate_kwargs
JsonQuery(method, name, path, allowed_kwargs, kwargs, answer) ==
    IF ValidateKwargs(name, allowed_kwargs, kwargs)
    THEN Outcome(method, kwargs, <<>>, NoResp, Raise("ValueError"), None)
    ELSE LET m == MakeRequest(path, <<>>, kwargs, answer)
         IN  IF m.exc.type # "none"
             THEN Outcome(method, kwargs, m.sent, m.resp, m.exc, None)
             ELSE LET v == ValidationDatasetResponse(m.resp)
                  IN  Outcome(method, kwargs, m.sent, m.resp, v.exc, v.ret)

\* core.py 264-265, 321, 378, 443
GetAllowed == {"r", "px", "ps", "p", "rg", "cc", "max", "type", "freq", "head",
               "token", "imts"}
ViewAllowed == {"r", "px", "ps", "type", "freq", "token"}
GetBulkAllowed == {"r", "px", "ps", "type", "freq", "token"}
ViewBulkAllowed == {"r", "px", "ps", "type", "freq", "from", "token"}

\* core.py 156-269
GetCall(kwargs, answer) == JsonQuery("get", "get", "get", GetAllowed, kwargs, answer)
\* core.py 271-325
ViewCall(kwargs, answer) ==
    JsonQuery("view", "view", "refs/da/view", ViewAllowed, kwargs, answer)
\* core.py 389-447: view_bulk gives the name "view" to _validate_kwargs
ViewBulkCall(kwargs, answer) ==
    JsonQuery("view_bulk", "view", "refs/da/bulk", ViewBulkAllowed, kwargs, answer)

\* str(v) inside an f-string, for None, a bool, an int >= 0, a float that is
\* nan or a whole number >= 0, and a str, which is formatted as itself
Format(v) ==
    IF v.t = "NoneType" THEN Str(<<"N", "o", "n", "e">>)
    ELSE IF v.t = "bool"
    THEN IF v.v THEN Str(<<"T", "r", "u", "e">>) ELSE Str(<<"F", "a", "l", "s", "e">>)
    ELSE IF v.t = "int" THEN Str(IntText(v.v))
    ELSE IF v.t = "float"
    THEN IF v.nan THEN Str(<<"n", "a", "n">>) ELSE Str(IntText(v.v) \o <<".", "0">>)
    ELSE v

\* the parameters of get_bulk, and those without a default
GetBulkParams == {"type", "freq", "ps", "r", "px", "token"}
GetBulkRequired == {"type", "freq", "ps", "r", "px"}

\* core.py 327-387: get_bulk called with the keyword arguments kw. Python raises
\* TypeError for a keyword that is no parameter and for a missing parameter
GetBulkCall(kw, answer) ==
    IF ~(DOMAIN kw \subseteq GetBulkParams /\ GetBulkRequired \subseteq DOMAIN kw)
    THEN Outcome("get_bulk", kw, <<>>, NoResp, Raise("TypeError"), None)
    ELSE LET given == IF "token" \in DOMAIN kw THEN kw["token"] ELSE None
             tok == IF given # None THEN given ELSE token
             kwargs == [k \in GetBulkParams |-> IF k = "token" THEN tok ELSE kw[k]]
         IN  IF ValidateKwargs("get_bulk", GetBulkAllowed, kwargs)
             THEN Outcome("get_bulk", kw, <<>>, NoResp, Raise("ValueError"), None)
             ELSE LET segs == <<Format(kw["type"]), Format(kw["freq"]), Format(kw["ps"]),
                                Format(kw["r"]), Format(kw["px"])>>
                      m == MakeRequest("get/bulk", segs, [k \in {"token"} |-> tok], answer)
                  IN  IF m.exc.type # "none"
                      THEN Outcome("get_bulk", kw, m.sent, m.resp, m.exc, None)
                      ELSE IF m.resp.body.kind # "zip"
                      THEN Outcome("get_bulk", kw, m.sent, m.resp, Raise("BadZipFile"), None)
                      ELSE IF m.resp.body.entries = <<>>
                      THEN Outcome("get_bulk", kw, m.sent, m.resp, Raise("IndexError"), None)
                      ELSE LET df == read_csv(m.resp.body.entries[1], FALSE)
                           IN  IF df.t # "DataFrame"
                               THEN Outcome("get_bulk", kw, m.sent, m.resp, Raise(df.t), None)
                               ELSE Outcome("get_bulk", kw, m.sent, m.resp, NoExc,
                                            ComtradeResult(EmptyDict, df, m.resp.url))

\* core.py 135-154: get_user_info
GetUserInfoCall(tok, answer) ==
    LET kw == [k \in {"token"} |-> tok]
        t == IF tok = None THEN token ELSE tok
    IN  IF t # None
        THEN LET m == MakeRequest("getUserInfo", <<>>, [k \in {"token"} |-> t], answer)
             IN  IF m.exc.type # "none"
                 THEN Outcome("get_user_info", kw, m.sent, m.resp, m.exc, None)
                 ELSE IF m.resp.body.kind # "json"
                 THEN Outcome("get_user_info", kw, m.sent, m.resp,
                              Raise("JSONDecodeError"), None)
                 ELSE Outcome("get_user_info", kw, m.sent, m.resp, NoExc,
                              [t |-> "dict", v |-> m.resp.body.js])
        ELSE Outcome("get_user_info", kw, <<>>, NoResp, Raise("ValueError"), None)

\* core.py 102-108 and 126-133: the body shared by get_subuser_token and
\* get_auth_token: request, r.json(), the token of the answer
TokenQuery(method, path, kwargs, answer) ==
    LET m == MakeRequest(path, <<>>, kwargs, answer)
    IN  IF m.exc.type # "none"
        THEN Outcome(method, kwargs, m.sent, m.resp, m.exc, None)
        ELSE IF m.resp.body.kind # "json"
        THEN Outcome(method, kwargs, m.sent, m.resp, Raise("JSONDecodeError"), None)
        ELSE IF "token" \in DOMAIN m.resp.body.js
        THEN Outcome(method, kwargs, m.sent, m.resp, NoExc, m.resp.body.js["token"])
        ELSE Outcome(method, kwargs, m.sent, m.resp, QueryError(m.resp), None)

\* core.py 86-108: get_subuser_token
GetSubuserTokenCall(email, answer) ==
    TokenQuery("get_subuser_token", "getSubUserToken", [k \in {"email"} |-> email], answer)

\* core.py 110-133: get_auth_token
GetAuthTokenCall(username, password, answer) ==
    TokenQuery("get_auth_token", "getAuthToken",
               [k \in {"username", "password"} |->
                   IF k = "username" THEN username ELSE password],
               answer)

\* core.py 450-455: save_subuser_token: the outcome of the call and the token
\* file after it. open(KEY_FILE_NAME, "w") leaves the file empty, and f.write
\* raises TypeError for a token that is no str
SaveSubuserTokenCall(email, answer) ==
    LET q == GetSubuserTokenCall(email, answer)
        o(exc) == Outcome("save_subuser_token", q.kwargs, q.sent, q.resp, exc, None)
    IN  IF q.exc.type # "none" THEN [call |-> o(q.exc), keyfile |-> keyfile]
        ELSE IF q.ret.t # "str" THEN [call |-> o(Raise("TypeError")), keyfile |-> Str(<<>>)]
        ELSE [call |-> o(NoExc), keyfile |-> q.ret]

----------------------------------------------------------------------------
(* The calls and the answers the model draws *)

\* the parameter names callers pass: "zz" is in no allow-list, "from" in that of
\* view_bulk alone, "p" in that of get alone
ParamNames == {"r", "p", "from", "token", "zz"}
\* the values callers pass: only the names are looked at
ArgValues == {Str(<<"0">>), Str(<<"a", "l", "l">>)}
KwargsSet == UNION {{[k \in S |-> v] : v \in ArgValues} : S \in SUBSET ParamNames}

\* the keyword sets get_bulk is called with
GetBulkNames == {GetBulkRequired, GetBulkParams, GetBulkRequired \cup {"zz"},
                 GetBulkRequired \ {"px"}}
\* the values get_bulk is called with: they are formatted into the path
GetBulkValues == ArgValues \cup {None, PyBool(TRUE), PyInt(1), PyFloat(1)}
GetBulkKwargsSet == UNION {{[k \in S |-> v] : v \in GetBulkValues} : S \in GetBulkNames}

\* a dataset of n records
Record(i) == << <<(<<"y", "r">>), PyInt(i)>>, <<(<<"p", "t">>), Str(<<"a">>)>> >>
Dataset(n) == PyList([i \in 1..n |-> Record(i)])

\* the status codes other than 200 the server answers with
ErrorStatuses == {404}

Envelope(fields, n) ==
    [kind |-> "json",
     js |-> [f \in fields |-> IF f = "validation" THEN Str(<<"o", "k">>) ELSE Dataset(n)]]
TextBody == [kind |-> "text"]

\* an envelope whose dataset is the value v
EnvelopeOf(v) ==
    [kind |-> "json",
     js |-> [f \in {"validation", "dataset"} |->
                IF f = "validation" THEN Str(<<"o", "k">>) ELSE v]]

\* the datasets that are no list: null, false and the zeros
ScalarDatasets == {None, PyBool(FALSE), PyInt(0), PyFloat(0)}

JsonBodies ==
    {Envelope(fields, 0) : fields \in SUBSET {"validation"}}
    \cup {Envelope(fields \cup {"dataset"}, n) :
            fields \in SUBSET {"validation"}, n \in 0..MaxRows}
    \cup {EnvelopeOf(v) : v \in ScalarDatasets}
    \cup {TextBody}

JsonAnswers ==
    {[status |-> HTTP_OK, body |-> b] : b \in JsonBodies}
    \cup {[status |-> c, body |-> b] :
            c \in ErrorStatuses, b \in {TextBody, Envelope({"validation", "dataset"}, 1)}}

\* a csv entry with the columns a, b and n rows of data
CsvEntry(n) ==
    <<(<<(<<"a">>), (<<"b">>)>>)>> \o [i \in 1..n |-> <<IntText(i), <<"x">>>>]
ZipBody(entries) == [kind |-> "zip", entries |-> entries]

ZipAnswers ==
    {[status |-> HTTP_OK, body |-> ZipBody(<<CsvEntry(n)>>)] : n \in 0..MaxRows}
    \cup {[status |-> HTTP_OK, body |-> b] : b \in {TextBody, ZipBody(<<>>), ZipBody(<< <<>> >>)}}
    \cup {[status |-> c, body |-> TextBody] : c \in ErrorStatuses}

\* the bodies of the answers to getSubUserToken and getAuthToken: a token of one
\* of the three lengths, a token with a carriage return inside, a null token,
\* an object without a token, a body that is not JSON
TokenBodies ==
    {[kind |-> "json", js |-> [f \in {"token"} |-> TokenOf(n, "t")]] : n \in TokenLens}
    \cup {[kind |-> "json", js |-> [f \in {"token"} |-> BrokenToken(key_len, <<"\r">>)]],
          [kind |-> "json", js |-> [f \in {"token"} |-> None]],
          [kind |-> "json", js |-> [f \in {"nope"} |-> PyInt(1)]],
          TextBody}

TokenAnswers ==
    {[status |-> HTTP_OK, body |-> b] : b \in TokenBodies}
    \cup {[status |-> c, body |-> TextBody] : c \in ErrorStatuses}

\* the token a caller passes to a method
CallToken == TokenOf(key_len, "c")

\* A behaviour is a series of scenarios: Comtrade(...) is called, then one method
\* of the client it returned; the next Comtrade(...) starts the next scenario. No
\* method assigns an attribute of the client, so a second call on the same
\* client would start from the state the first call started from.
CanCall == ctor = "ok" /\ call.method = "none"

Get ==
    /\ CanCall
    /\ \E kwargs \in KwargsSet, answer \in JsonAnswers : call' = GetCall(kwargs, answer)
    /\ UNCHANGED <<environ, keyfile, ctor, arg, token, sess, warns, ctor_exc>>
    /\ UNCHANGED cacheVars

View ==
    /\ CanCall
    /\ \E kwargs \in KwargsSet, answer \in JsonAnswers : call' = ViewCall(kwargs, answer)
    /\ UNCHANGED <<environ, keyfile, ctor, arg, token, sess, warns, ctor_exc>>
    /\ UNCHANGED cacheVars

ViewBulk ==
    /\ CanCall
    /\ \E kwargs \in KwargsSet, answer \in JsonAnswers :
           call' = ViewBulkCall(kwargs, answer)
    /\ UNCHANGED <<environ, keyfile, ctor, arg, token, sess, warns, ctor_exc>>
    /\ UNCHANGED cacheVars

GetBulk ==
    /\ CanCall
    /\ \E kw \in GetBulkKwargsSet, answer \in ZipAnswers : call' = GetBulkCall(kw, answer)
    /\ UNCHANGED <<environ, keyfile, ctor, arg, token, sess, warns, ctor_exc>>
    /\ UNCHANGED cacheVars

GetUserInfo ==
    /\ CanCall
    /\ \E tok \in {None, CallToken}, answer \in JsonAnswers :
           call' = GetUserInfoCall(tok, answer)
    /\ UNCHANGED <<environ, keyfile, ctor, arg, token, sess, warns, ctor_exc>>
    /\ UNCHANGED cacheVars

\* core.py 86-108
GetSubuserToken ==
    /\ CanCall
    /\ \E email \in ArgValues, answer \in TokenAnswers :
           call' = GetSubuserTokenCall(email, answer)
    /\ UNCHANGED <<environ, keyfile, ctor, arg, token, sess, warns, ctor_exc>>
    /\ UNCHANGED cacheVars

\* core.py 110-133
GetAuthToken ==
    /\ CanCall
    /\ \E username \in ArgValues, password \in ArgValues, answer \in TokenAnswers :
           call' = GetAuthTokenCall(username, password, answer)
    /\ UNCHANGED <<environ, keyfile, ctor, arg, token, sess, warns, ctor_exc>>
    /\ UNCHANGED cacheVars

\* core.py 450-455
SaveSubuserToken ==
    /\ CanCall
    /\ \E email \in ArgValues, answer \in TokenAnswers :
           LET o == SaveSubuserTokenCall(email, answer)
           IN  /\ call' = o.call
               /\ keyfile' = o.keyfile
    /\ UNCHANGED <<environ, ctor, arg, token, sess, warns, ctor_exc>>
    /\ UNCHANGED cacheVars

----------------------------------------------------------------------------
(* util.py: the cache of reference tables *)

\* the largest number of records in the results of a reference table
MaxResults == 1

\* "https://comtrade.un.org/data/cache/", util.py 52
CACHE_URL ==
    <<"h", "t", "t", "p", "s", ":", "/", "/", "c", "o", "m", "t", "r", "a", "d", "e",
      ".", "u", "n", ".", "o", "r", "g", "/", "d", "a", "t", "a", "/", "c", "a", "c",
      "h", "e", "/">>
JSON_EXT == <<".", "j", "s", "o", "n">>
CSV_EXT == <<".", "c", "s", "v">>

partnerAreas == <<"p", "a", "r", "t", "n", "e", "r", "A", "r", "e", "a", "s">>
reporterAreas == <<"r", "e", "p", "o", "r", "t", "e", "r", "A", "r", "e", "a", "s">>
tradeRegimes == <<"t", "r", "a", "d", "e", "R", "e", "g", "i", "m", "e", "s">>

\* f"https://comtrade.un.org/data/cache/{root_name}.json"
MetadataUrl(root_name) == CACHE_URL \o root_name \o JSON_EXT

Positions(s, c) == {i \in 1..Len(s) : s[i] = c}
Largest(S) == CHOOSE i \in S : \A j \in S : j <= i
Smallest(S) == CHOOSE i \in S : \A j \in S : i <= j

\* os.path.basename(p): what follows the last "/"
basename(p) ==
    IF Positions(p, "/") = {} THEN p
    ELSE SubSeq(p, Largest(Positions(p, "/")) + 1, Len(p))

\* s.split(".")[0]: what precedes the first "."
SplitDotFirst(s) ==
    IF Positions(s, ".") = {} THEN s
    ELSE SubSeq(s, 1, Smallest(Positions(s, ".")) - 1)

\* "classification", util.py 76
CLASSIFICATION == <<"c", "l", "a", "s", "s", "i", "f", "i", "c", "a", "t", "i", "o", "n">>

\* util.py 26-41: urls in update_metadata_files
urls ==
    <<MetadataUrl(reporterAreas),
      MetadataUrl(partnerAreas),
      MetadataUrl(tradeRegimes),
      MetadataUrl(CLASSIFICATION \o <<"H", "S">>),
      MetadataUrl(CLASSIFICATION \o <<"H", "0">>),
      MetadataUrl(CLASSIFICATION \o <<"H", "1">>),
      MetadataUrl(CLASSIFICATION \o <<"H", "2">>),
      MetadataUrl(CLASSIFICATION \o <<"H", "3">>),
      MetadataUrl(CLASSIFICATION \o <<"H", "4">>),
      MetadataUrl(CLASSIFICATION \o <<"S", "T">>),
      MetadataUrl(CLASSIFICATION \o <<"S", "1">>),
      MetadataUrl(CLASSIFICATION \o <<"S", "2">>),
      MetadataUrl(CLASSIFICATION \o <<"S", "3">>),
      MetadataUrl(CLASSIFICATION \o <<"S", "4">>),
      MetadataUrl(CLASSIFICATION \o <<"B", "E", "C">>),
      MetadataUrl(CLASSIFICATION \o <<"E", "B", "0", "2">>)>>

NoMCall == [fn |-> "none", root_name |-> <<>>, had_file |-> FALSE, fetches |-> 0,
            written |-> {}, answer |-> None, exc |-> "none", ret |-> None]

\* a call of update_metadata_files is between two fetches: the process that
\* made it makes no other call of util.py before it returns
Running ==
    /\ mcall.fn = "update_metadata_files"
    /\ mcall.exc = "none"
    /\ mcall.fetches < Len(urls)

\* files with the file named fn holding lines
WriteFile(fs, fn, lines) ==
    [f \in DOMAIN fs \cup {fn} |-> IF f = fn THEN lines ELSE fs[f]]

\* update_metadata_file as it would be without the check of the more flag: the
\* first page of the results is saved as if it were the whole table
UpdateMetadataFileIgnoringMore(url, answer) ==
    LET out(w, e, r) == [fetches |-> 1, written |-> w, exc |-> e, ret |-> r]
    IN  IF ~answer.ok THEN out(<<>>, "AssertionError", None)
        ELSE LET df == DataFrame(answer.results)
                 fn == SplitDotFirst(basename(url))
             IN  out(<< <<fn \o CSV_EXT, to_csv(df), df>> >>, "none", df)

\* util.py 11-22: update_metadata_file(url), the server answering with answer:
\* the fetch, the file written (its name, its lines and the table it was written
\* from), the exception and the table returned
UpdateMetadataFileCall(url, answer) ==
    LET out(w, e, r) == [fetches |-> 1, written |-> w, exc |-> e, ret |-> r]
    IN  IF ~answer.ok THEN out(<<>>, "AssertionError", None)
        ELSE IF answer.more THEN out(<<>>, "AssertionError", None)
        ELSE LET df == DataFrame(answer.results)
                 fn == SplitDotFirst(basename(url))
             IN  out(<< <<fn \o CSV_EXT, to_csv(df), df>> >>, "none", df)

\* util.py 47-53: _get_metadata_file(root_name)
GetMetadataFileCall(root_name, answer) ==
    LET fn == root_name \o CSV_EXT
    IN  IF fn \in DOMAIN files
        THEN LET df == read_csv(files[fn], TRUE)
             IN  IF df.t # "DataFrame"
                 THEN [fetches |-> 0, written |-> <<>>, exc |-> df.t, ret |-> None]
                 ELSE [fetches |-> 0, written |-> <<>>, exc |-> "none", ret |-> df]
        ELSE UpdateMetadataFileCall(MetadataUrl(root_name), answer)

\* the values of the id of a record, and the results lists of the server
ID == <<"i", "d">>
TEXT == <<"t", "e", "x", "t">>
IdValues == {Str(<<"0", "4">>), Str(<<"a", "l", "l">>)}
ResultRecord(v) == << <<ID, v>>, <<TEXT, Str(<<"x">>)>> >>
ResultsSet ==
    UNION {{PyList([i \in 1..n |-> ResultRecord(ids[i])]) : ids \in [1..n -> IdValues]} :
             n \in 1..MaxResults}

MetaAnswers ==
    {[ok |-> TRUE, more |-> FALSE, results |-> r] : r \in ResultsSet}
    \cup {[ok |-> TRUE, more |-> TRUE, results |-> r] :
            r \in {PyList(<<ResultRecord(Str(<<"a", "l", "l">>))>>)}}
    \cup {[ok |-> FALSE, more |-> FALSE, results |-> PyList(<<>>)]}

\* the record of a call of fn with the outcome o
MCallOf(fn, root_name, answer, o) ==
    [fn |-> fn, root_name |-> root_name,
     had_file |-> (root_name \o CSV_EXT) \in DOMAIN files,
     fetches |-> o.fetches,
     written |-> {o.written[i][1] : i \in 1..Len(o.written)},
     answer |-> IF o.fetches = 0 THEN None ELSE answer,
     exc |-> o.exc, ret |-> o.ret]

\* fs after the writes of written, in their order; part is 2 for the lines of
\* the files and 3 for their tables
RECURSIVE WriteAll(_, _, _)
WriteAll(fs, written, part) ==
    IF written = <<>> THEN fs
    ELSE WriteAll(WriteFile(fs, Head(written)[1], Head(written)[part]), Tail(written), part)

\* DATA_DIR after the writes of the outcome o
FilesAfter(o) == WriteAll(files, o.written, 2)

\* the table update_metadata_file returned when it wrote each file
OriginAfter(o) == WriteAll(origin, o.written, 3)

\* the largest number of files DATA_DIR holds after a call of an accessor, of
\* update_metadata_file or of get_classification, after a removal that ends with
\* no call running, and when a call of update_metadata_files starts; that call
\* itself writes up to sixteen
MaxFiles == 2

\* the largest number of files written by a running call of
\* update_metadata_files that are missing after the removal of one file
MaxRemoved == 1

\* util.py 56-57
GetPartnerAreas ==
    \E answer \in MetaAnswers :
        LET o == GetMetadataFileCall(partnerAreas, answer)
        IN  /\ ~Running
            /\ mcall' = MCallOf("get_partner_areas", partnerAreas, answer, o)
            /\ files' = FilesAfter(o)
            /\ origin' = OriginAfter(o)
            /\ Cardinality(DOMAIN files') <= MaxFiles
            /\ UNCHANGED clientVars

\* util.py 60-61
GetReporterAreas ==
    \E answer \in MetaAnswers :
        LET o == GetMetadataFileCall(reporterAreas, answer)
        IN  /\ ~Running
            /\ mcall' = MCallOf("get_reporter_areas", reporterAreas, answer, o)
            /\ files' = FilesAfter(o)
            /\ origin' = OriginAfter(o)
            /\ Cardinality(DOMAIN files') <= MaxFiles
            /\ UNCHANGED clientVars

\* util.py 64-65
GetTradeRegimes ==
    \E answer \in MetaAnswers :
        LET o == GetMetadataFileCall(tradeRegimes, answer)
        IN  /\ ~Running
            /\ mcall' = MCallOf("get_trade_regimes", tradeRegimes, answer, o)
            /\ files' = FilesAfter(o)
            /\ origin' = OriginAfter(o)
            /\ Cardinality(DOMAIN files') <= MaxFiles
            /\ UNCHANGED clientVars


\* util.py 69-70: allowed in get_classification
allowed ==
    <<<<"H", "S">>,
     <<"H", "0">>,
     <<"H", "1">>,
     <<"H", "2">>,
     <<"H", "3">>,
     <<"H", "4">>,
     <<"S", "T">>,
     <<"S", "1">>,
     <<"S", "2">>,
     <<"S", "3">>,
     <<"S", "4">>,
     <<"B", "E", "C">>,
     <<"E", "B", "0", "2">>>>

\* get_classification as it would be without the check of the code
GetClassificationUnchecked(n, answer) ==
    LET o == GetMetadataFileCall(CLASSIFICATION \o n, answer)
    IN  [resolved |-> Str(CLASSIFICATION \o n), fetches |-> o.fetches,
         written |-> o.written, exc |-> o.exc, ret |-> o.ret]

\* util.py 68-76: get_classification(n): the name given to _get_metadata_file
\* (None when it is not called) and the outcome
GetClassificationCall(n, answer) ==
    IF ~InSeq(n, allowed)
    THEN [resolved |-> None, fetches |-> 0, written |-> <<>>, exc |-> "ValueError",
          ret |-> None]
    ELSE LET o == GetMetadataFileCall(CLASSIFICATION \o n, answer)
         IN  [resolved |-> Str(CLASSIFICATION \o n), fetches |-> o.fetches,
              written |-> o.written, exc |-> o.exc, ret |-> o.ret]

\* the codes get_classification is called with: the codes of the list and
\* others: an unknown code, a known code in lower case, a code that does not
\* exist, a prefix of a code and the empty string
CodeInputs ==
    {allowed[i] : i \in 1..Len(allowed)}
    \cup {<<"Z", "Z">>, <<"h", "s">>, <<"H", "5">>, <<"B", "E">>, <<>>}

\* the answers of the server to the fetch of a classification, to a call of
\* update_metadata_file and to the fetches of update_metadata_files: the table
\* served, the more flag set, a status that is not OK
ClassAnswers ==
    {[ok |-> TRUE, more |-> FALSE,
      results |-> PyList(<<ResultRecord(Str(<<"a", "l", "l">>))>>)],
     [ok |-> TRUE, more |-> TRUE,
      results |-> PyList(<<ResultRecord(Str(<<"a", "l", "l">>))>>)],
     [ok |-> FALSE, more |-> FALSE, results |-> PyList(<<>>)]}

\* the urls the user calls update_metadata_file with: those of the three
\* accessors and that of the classification HS
UpdateUrls ==
    {MetadataUrl(partnerAreas), MetadataUrl(reporterAreas), MetadataUrl(tradeRegimes),
     MetadataUrl(CLASSIFICATION \o <<"H", "S">>)}

\* util.py 11-22, called by the user to refresh one table
UpdateMetadataFile ==
    \E url \in UpdateUrls, answer \in ClassAnswers :
        LET o == UpdateMetadataFileCall(url, answer)
            root_name == SplitDotFirst(basename(url))
        IN  /\ ~Running
            /\ mcall' = MCallOf("update_metadata_file", root_name, answer, o)
            /\ files' = FilesAfter(o)
            /\ origin' = OriginAfter(o)
            /\ Cardinality(DOMAIN files') <= MaxFiles
            /\ UNCHANGED clientVars

\* util.py 25-44: one turn of the loop of update_metadata_files, the first one
\* when no call is running: update_metadata_file(urls[i]) fetches and writes.
\* Between two turns the call waits for the server, and the files of DATA_DIR
\* may be removed meanwhile. The record names the last fetch, its answer,
\* whether the file of its name was there before it, the number of fetches and
\* the files written so far; the call has returned after the last url and has
\* raised with the exception of update_metadata_file
UpdateMetadataFiles ==
    \E answer \in ClassAnswers :
        LET i == IF Running THEN mcall.fetches + 1 ELSE 1
            before == IF Running THEN mcall.written ELSE {}
            o == UpdateMetadataFileCall(urls[i], answer)
            root_name == SplitDotFirst(basename(urls[i]))
        IN  /\ mcall' = [fn |-> "update_metadata_files", root_name |-> root_name,
                         had_file |-> (root_name \o CSV_EXT) \in DOMAIN files,
                         fetches |-> i,
                         written |-> before \cup {o.written[j][1] : j \in 1..Len(o.written)},
                         answer |-> answer, exc |-> o.exc, ret |-> None]
            /\ files' = FilesAfter(o)
            /\ origin' = OriginAfter(o)
            /\ (Running \/ Cardinality(DOMAIN files) <= MaxFiles)
            /\ UNCHANGED clientVars

\* the record of a call of get_classification(n) with the outcome o: read is
\* TRUE when _get_metadata_file read the local file
ClassCallOf(n, answer, o) ==
    [fn |-> "get_classification", n |-> n,
     resolved |-> o.resolved,
     root_name |-> IF o.resolved = None THEN <<>> ELSE o.resolved.s,
     had_file |-> o.resolved # None /\ (o.resolved.s \o CSV_EXT) \in DOMAIN files,
     read |-> o.resolved # None /\ o.fetches = 0,
     fetches |-> o.fetches,
     written |-> {o.written[i][1] : i \in 1..Len(o.written)},
     answer |-> IF o.fetches = 0 THEN None ELSE answer,
     exc |-> o.exc, ret |-> o.ret]

\* util.py 68-76
GetClassification ==
    \E n \in CodeInputs, answer \in ClassAnswers :
        LET o == GetClassificationCall(n, answer)
        IN  /\ ~Running
            /\ mcall' = ClassCallOf(n, answer, o)
            /\ files' = FilesAfter(o)
            /\ origin' = OriginAfter(o)
            /\ Cardinality(DOMAIN files') <= MaxFiles
            /\ UNCHANGED clientVars

\* the user removes one file of DATA_DIR, or all of them, and keeps those of
\* keep; a call of update_metadata_files that is running goes on with its next
\* fetch
DeleteFile ==
    \E keep \in {DOMAIN files \ {fn} : fn \in DOMAIN files} \cup {{}} :
        /\ keep # DOMAIN files
        /\ IF Running
           THEN keep = {} \/ Cardinality(mcall.written \ keep) <= MaxRemoved
           ELSE Cardinality(keep) <= MaxFiles
        /\ files' = [f \in keep |-> files[f]]
        /\ origin' = [f \in keep |-> origin[f]]
        /\ mcall' = IF Running THEN mcall ELSE NoMCall
        /\ UNCHANGED clientVars

----------------------------------------------------------------------------

InitClient ==
    /\ environ \in EnvTokens
    /\ keyfile \in FileContents
    /\ ctor = "none"
    /\ arg = None
    /\ token = None
    /\ sess = FALSE
    /\ warns = <<>>
    /\ ctor_exc = "none"
    /\ call = NoCall

\* __init__.py 10-11 creates DATA_DIR; it holds no file before the first fetch
InitCache ==
    /\ files = <<>>
    /\ origin = <<>>
    /\ mcall = NoMCall

Init == InitClient /\ InitCache

Next ==
    Construct \/ Get \/ View \/ ViewBulk \/ GetBulk \/ GetUserInfo
    \/ GetSubuserToken \/ GetAuthToken \/ SaveSubuserToken

Spec == Init /\ [][Next]_vars

\* the calls of util.py, with no client: the token sources play no part
InitUtil ==
    /\ environ = None
    /\ keyfile = None
    /\ ctor = "none"
    /\ arg = None
    /\ token = None
    /\ sess = FALSE
    /\ warns = <<>>
    /\ ctor_exc = "none"
    /\ call = NoCall
    /\ InitCache

NextUtil ==
    GetPartnerAreas \/ GetReporterAreas \/ GetTradeRegimes \/ UpdateMetadataFile
    \/ UpdateMetadataFiles \/ DeleteFile

SpecUtil == InitUtil /\ [][NextUtil]_vars

\* the calls of get_classification and the refreshes of single files: they share
\* _get_metadata_file with the other accessors and touch other files of DATA_DIR
NextClassification == GetClassification \/ UpdateMetadataFile \/ DeleteFile

SpecClassification == InitUtil /\ [][NextClassification]_vars

----------------------------------------------------------------------------
(* The claims about Comtrade.__init__ and the query methods, under Spec *)

\* the token of the source of highest priority that is present: the argument,
\* then the environment variable, then the token file with its surrounding
\* whitespace removed; None when there is none
HighestPriority ==
    IF arg # None THEN arg
    ELSE IF environ # None THEN environ
    ELSE IF keyfile # None THEN Str(strip(UniversalNewlines(keyfile.s)))
    ELSE None

\* the token file is the one the construction read: the client has not called
\* save_subuser_token since
TokenFileAsRead == call.method # "save_subuser_token"

QueryMethods == {"get", "view", "get_bulk", "view_bulk"}
JsonMethods == {"get", "view", "view_bulk"}

AllowList(method) ==
    CASE method = "get" -> GetAllowed
      [] method = "view" -> ViewAllowed
      [] method = "get_bulk" -> GetBulkAllowed
      [] method = "view_bulk" -> ViewBulkAllowed

\* C1: after a construction that succeeded, the stored token is the token of the
\* source of highest priority that is present (argument, then environment
\* variable, then token file) when that token has exactly 152 characters, and is
\* unset when no source is present.
C1_TokenByPriority ==
    (/\ ctor = "ok" /\ TokenFileAsRead
     /\ (HighestPriority = None \/ Len(HighestPriority.s) = key_len))
        => token = HighestPriority

\* C2: when the token resolved at construction, from whichever source, is longer
\* than 152 characters, construction succeeds, the stored token is its first 152
\* characters and a warning about the truncation was emitted.
C2_LongTokenTruncated ==
    (/\ ctor # "none" /\ TokenFileAsRead
     /\ HighestPriority # None /\ Len(HighestPriority.s) > key_len)
        => /\ ctor = "ok"
           /\ token = Str(SlicePrefix(HighestPriority.s, key_len))
           /\ InSeq("token too long", warns)

\* C3: when the token resolved at construction, from whichever source, is shorter
\* than 152 characters, construction fails and no session is created; and no
\* client that holds a token of another length than 152 sends a request.
C3_ShortTokenRejected ==
    /\ (/\ ctor # "none" /\ TokenFileAsRead
        /\ HighestPriority # None /\ Len(HighestPriority.s) < key_len)
           => (ctor = "raised" /\ ~sess)
    /\ (call.sent # <<>> /\ token # None) => Len(token.s) = key_len

\* C4: a client constructed with no token from any source was warned, has a
\* session, and its get with allowed parameters or get_user_info with an explicit
\* token sends the HTTP request.
C4_NoTokenClientSends ==
    (/\ ctor = "ok" /\ arg = None /\ environ = None /\ keyfile = None
     /\ \/ call.method = "get" /\ DOMAIN call.kwargs \subseteq GetAllowed
        \/ call.method = "get_user_info" /\ call.kwargs["token"] # None)
        => /\ InSeq("token not detected", warns)
           /\ sess
           /\ Len(call.sent) = 1

\* C5: a call of get, view, get_bulk or view_bulk with a parameter name outside
\* the allow-list of the method fails with a parameter error, sends no request
\* and returns nothing; a call whose names are all allowed is never refused for
\* its names, whatever the values.
C5_DisallowedNameNoRequest ==
    /\ (/\ call.method \in QueryMethods
        /\ \E k \in DOMAIN call.kwargs : k \notin AllowList(call.method))
           => /\ call.exc.type \in {"ValueError", "TypeError"}
              /\ call.sent = <<>>
              /\ call.ret = None
    /\ (/\ call.method \in JsonMethods
        /\ DOMAIN call.kwargs \subseteq AllowList(call.method))
           => call.exc.type # "ValueError"

C5_Witness ==
    /\ sess
    /\ call.method = "view_bulk"
    /\ {"r", "zz"} \subseteq DOMAIN call.kwargs
    /\ call.exc.type = "ValueError"
    /\ call.sent = <<>>

\* C6: every Result a query method returns has a dataset of at least one row.
C6_ResultNeverEmpty ==
    (call.method \in QueryMethods /\ call.ret # None) => NRows(call.ret.df) > 0

\* the envelope of the response lacks one of its two fields
LacksField(r) ==
    /\ r.body.kind = "json"
    /\ ~({"validation", "dataset"} \subseteq DOMAIN r.body.js)

\* C8: a get, view or view_bulk whose response has another status than 200, or
\* has the status 200 and a JSON envelope without the validation field or without
\* the dataset field, fails with a query error that carries that response, and
\* returns no Result.
C8_FailedQueryCarriesResponse ==
    (/\ call.method \in JsonMethods
     /\ call.sent # <<>>
     /\ \/ call.resp.status_code # HTTP_OK
        \/ LacksField(call.resp))
        => /\ call.exc.type = "QueryError"
           /\ call.exc.response = call.resp
           /\ call.ret = None

C8_Witness ==
    /\ call.method = "view"
    /\ call.sent # <<>>
    /\ call.resp.status_code = HTTP_OK
    /\ call.resp.body.kind = "json"
    /\ DOMAIN call.resp.body.js = {"validation"}
    /\ call.exc.type = "QueryError"
    /\ call.exc.response = call.resp

\* the response is a 200 with an envelope that has both fields and a dataset of
\* at least one record
GoodEnvelope(r) ==
    /\ r.status_code = HTTP_OK
    /\ r.body.kind = "json"
    /\ {"validation", "dataset"} \subseteq DOMAIN r.body.js
    /\ r.body.js["dataset"].t = "list"
    /\ Len(r.body.js["dataset"].v) > 0

\* C9: a get whose response is a 200 with an envelope holding validation and a
\* non-empty dataset returns a Result with as many rows as the dataset has
\* records, the validation of the envelope, and the url of the response: the url
\* of the get endpoint with the parameters of the call as its query.
C9_GetResult ==
    (call.method = "get" /\ call.sent # <<>> /\ GoodEnvelope(call.resp))
        => /\ call.exc.type = "none"
           /\ call.ret # None
           /\ NRows(call.ret.df) = Len(call.resp.body.js["dataset"].v)
           /\ call.ret.validation = call.resp.body.js["validation"]
           /\ call.ret.url = call.resp.url
           /\ call.ret.url.url = [base |-> DEFAULT_API_URL, path |-> "get", segs |-> <<>>]
           /\ call.ret.url.query = call.kwargs

C9_Witness ==
    /\ call.method = "get"
    /\ GoodEnvelope(call.resp)
    /\ {"r", "p"} \subseteq DOMAIN call.kwargs
    /\ call.ret # None
    /\ NRows(call.ret.df) = MaxRows

\* C10: when the caller of get, view, get_bulk or view_bulk gives no token and the
\* client holds one, the request sent carries the token of the client as its
\* token parameter.
C10_StoredTokenSent ==
    (/\ call.method \in QueryMethods
     /\ call.sent # <<>>
     /\ "token" \notin DOMAIN call.kwargs
     /\ token # None)
        => /\ "token" \in DOMAIN call.sent[1].params
           /\ call.sent[1].params["token"] = token

----------------------------------------------------------------------------
(* The claims about the cache of reference tables, under SpecUtil *)

Accessors == {"get_partner_areas", "get_reporter_areas", "get_trade_regimes"}

\* C7: a request for a reference table with no local file that succeeds made
\* exactly one fetch, wrote exactly one file, <name>.csv, and returned the table
\* of the fetched results; a request for a name whose file exists makes no fetch
\* and returns a table equal to the one returned by the request that wrote the
\* file, whatever other names were requested in between.
C7_CachedTableEqualsFirst ==
    /\ (mcall.fn \in Accessors /\ ~mcall.had_file /\ mcall.exc = "none")
           => /\ mcall.fetches = 1
              /\ mcall.written = {mcall.root_name \o CSV_EXT}
              /\ mcall.ret = DataFrame(mcall.answer.results)
    /\ (mcall.fn \in Accessors /\ mcall.had_file)
           => /\ mcall.fetches = 0
              /\ mcall.exc = "none"
              /\ mcall.ret = origin[mcall.root_name \o CSV_EXT]

\* the last call fetched and the server answered with an error status or with
\* the more flag set
FetchRefused(c) ==
    /\ c.fn # "none"
    /\ c.fetches >= 1
    /\ (~c.answer.ok \/ c.answer.more)

\* a refused fetch raised, returned no table and wrote no file of its name: a
\* call that made that fetch alone wrote none at all; when the name had no
\* local file before the fetch, there is still none
C11_RefusedFetchState ==
    FetchRefused(mcall)
        => /\ mcall.exc = "AssertionError"
           /\ mcall.ret = None
           /\ (mcall.root_name \o CSV_EXT) \notin mcall.written
           /\ mcall.fetches = 1 => mcall.written = {}
           /\ ~mcall.had_file => (mcall.root_name \o CSV_EXT) \notin DOMAIN files

\* a step whose fetch is refused leaves the files as they were, for a turn of
\* update_metadata_files those written by the turns before it included
RefusedFetchKeepsFiles ==
    FetchRefused(mcall') => (files' = files /\ origin' = origin)

\* the request for a table that follows a refused fetch of the same name
RequestAfterRefusal ==
    /\ FetchRefused(mcall)
    /\ mcall'.fn \in Accessors
    /\ mcall'.root_name = mcall.root_name

\* the statement of C11 as written: a refused fetch raises, returns no table and
\* leaves the files as they were, and the request for the same name that follows
\* it fetches again, whether or not the name has a local file
C11_AsWritten ==
    /\ [](C11_RefusedFetchState)
    /\ [][/\ RefusedFetchKeepsFiles
          /\ RequestAfterRefusal => mcall'.fetches = 1]_vars

\* a request for a table fetches exactly when the name has no local file at the
\* time of the request, however long after a refused fetch it is made
RequestFetchesForWantOfFile ==
    mcall.fn \in Accessors
        => /\ mcall.fetches = (IF mcall.had_file THEN 0 ELSE 1)
           /\ mcall.had_file => mcall.written = {}

\* the request that follows a refused fetch of the same name fetches again when
\* the name had no local file before the refused fetch; when it had one, the
\* file is still there, as it was, and the request reads it: it makes no fetch
\* and returns the table of the file
C11_RefusedFetchStep ==
    /\ RefusedFetchKeepsFiles
    /\ RequestAfterRefusal
           => /\ mcall'.had_file = mcall.had_file
              /\ ~mcall.had_file => mcall'.fetches = 1
              /\ mcall.had_file
                     => /\ mcall'.fetches = 0
                        /\ mcall'.ret = read_csv(files[mcall.root_name \o CSV_EXT], TRUE)
                        /\ files' = files

\* C11: a fetch of a reference table whose response has the more flag set, or is
\* not an OK response, fails: it raises, returns no table and neither creates nor
\* overwrites the local file of the name, so the files are what they were before
\* the call. A later request for the same name fetches again exactly when the
\* name has no local file then: after a refused fetch for a name without a file
\* the next request fetches again, and after a refused fetch for a name whose
\* file exists the next request reads the file, left as it was, and fetches
\* nothing.
C11_RefusedFetchLeavesCache ==
    /\ [](C11_RefusedFetchState)
    /\ [](RequestFetchesForWantOfFile)
    /\ [][C11_RefusedFetchStep]_vars

\* update_metadata_file was refused for the more flag while the file of the name
\* exists: the file was not overwritten
C11_Witness ==
    /\ mcall.fn = "update_metadata_file"
    /\ mcall.had_file
    /\ mcall.fetches = 1
    /\ mcall.answer.ok /\ mcall.answer.more
    /\ mcall.exc = "AssertionError"
    /\ (mcall.root_name \o CSV_EXT) \in DOMAIN files

----------------------------------------------------------------------------
(* The claim about get_classification, under SpecClassification *)

\* the 13 codes: HS, H0 to H4, ST, S1 to S4, BEC, EB02
KnownCodes ==
    {<<"H", "S">>, <<"H", "0">>, <<"H", "1">>, <<"H", "2">>, <<"H", "3">>, <<"H", "4">>, <<"S", "T">>,
     <<"S", "1">>, <<"S", "2">>, <<"S", "3">>, <<"S", "4">>, <<"B", "E", "C">>, <<"E", "B", "0", "2">>}

classificationHS == <<"c", "l", "a", "s", "s", "i", "f", "i", "c", "a", "t", "i", "o", "n", "H", "S">>

\* C12: get_classification(n) fails for every code n outside the 13 codes before
\* any file is read or written and before any fetch; for every code n of the 13
\* it goes to the cache entry named "classification" followed by n, HS to
\* classificationHS: the file read or written is the csv file of that name.
C12_ClassificationCodes ==
    mcall.fn = "get_classification"
        => /\ mcall.n \notin KnownCodes
                => /\ mcall.exc = "ValueError"
                   /\ mcall.resolved = None
                   /\ mcall.fetches = 0
                   /\ ~mcall.read
                   /\ mcall.written = {}
                   /\ mcall.ret = None
           /\ mcall.n \in KnownCodes
                => /\ mcall.exc # "ValueError"
                   /\ mcall.resolved = Str(CLASSIFICATION \o mcall.n)
                   /\ mcall.read = ~(mcall.fetches = 1)
                   /\ mcall.read => mcall.had_file
                   /\ mcall.written \subseteq {CLASSIFICATION \o mcall.n \o CSV_EXT}
                   /\ (mcall.fetches = 1 /\ mcall.exc = "none")
                          => /\ mcall.written # {}
                             /\ (CLASSIFICATION \o mcall.n \o CSV_EXT) \in DOMAIN files
           /\ mcall.n = <<"H", "S">>
                => /\ mcall.resolved = Str(classificationHS)
                   /\ mcall.written \subseteq {classificationHS \o CSV_EXT}

\* the code ZZ was refused while classificationHS.csv is in the cache
C12_Witness ==
    /\ mcall.fn = "get_classification"
    /\ mcall.n = <<"Z", "Z">>
    /\ mcall.exc = "ValueError"
    /\ mcall.fetches = 0
    /\ (classificationHS \o CSV_EXT) \in DOMAIN files

====
